---- MODULE Spec2Model ----
(***************************************************************************)
(* HiveCoordinator (src/src/hive/coordinator.py) as a state machine.       *)
(*                                                                         *)
(* All coroutines of the coordinator run on one asyncio event loop.  A     *)
(* coroutine only yields at asyncio.sleep and at message_queue.get();      *)
(* send_message contains no suspension point, so every public call, every  *)
(* message handler and every iteration of a background loop is one atomic  *)
(* step.  Each action below is one such step.                              *)
(*                                                                         *)
(* Python dicts keep insertion order, so every dict whose iteration order  *)
(* the code depends on is modelled with its key order.  Times are whole    *)
(* seconds.  success_rate is kept in millionths and average_task_time in   *)
(* milliseconds (fixed point, rounded down); hive_efficiency and the       *)
(* utilisations it is built from are in millionths.                        *)
(***************************************************************************)
EXTENDS Integers, Sequences, FiniteSets, TLC

\* ---------------------------------------------------------------- inputs
AgentIds == {"a1", "a2"}
TaskIds == {"t1", "t2", "t3"}
\* the tasks submitted while the clock runs
TimedTaskIds == {"t1", "t2"}
\* the task submitted where the message handlers are exercised
HandlerTaskIds == {"t1"}
\* the id of the n-th task of a long run of submissions
HistoryTaskId(n) == ToString(n)
None == "none"
\* a datetime field that holds None
NoTime == -1

Strategies ==
  {"round_robin", "load_balanced", "capability_based", "auction_based",
   "priority_based"}

\* timedelta.seconds is the seconds component of a day-normalised delta
SecondsPerDay == 86400
\* the literal 30 of _get_available_agents and _health_monitor
HeartbeatTimeout == 30
\* `task.priority < 3` of _handle_task_failed
RetryPriorityLimit == 3
\* `len(self.completed_tasks) < 10` of _analyze_task_patterns
PatternThreshold == 10
\* `self.completed_tasks[-100:]` of _analyze_task_patterns
HistoryWindow == 100
\* settings.max_agents, configured small
max_agents == 1

\* the clock advances by StaleStep seconds or by a day, MaxAdvances times
StaleStep == HeartbeatTimeout + 1
MaxAdvances == 1
\* register_agent calls explored
MaxRegistrations == 2
\* messages that may wait in message_queue at a time
MaxPending == 2
\* tasks submitted one after the other to fill the completed history
HistoryTasks == 101

\* capabilities an agent declares when it registers
AgentCaps(a) ==
  IF a = "a1" THEN {"web_search"} ELSE {"web_search", "generate_code"}
\* max_load values an agent may declare
LoadChoices == {1, 2}
\* max_load an agent declares while the clock runs
TimedLoad(a) == IF a = "a1" THEN 1 ELSE 2

\* what an agent may declare where the selection strategies are compared:
\* its capabilities, its success_rate (millionths) and its
\* average_task_time (milliseconds)
SelectionCaps == {{"web_search"}, {"web_search", "generate_code"}}
SelectionRates == {900000, 950000}
SelectionTimes == {0, 1000, 2000}

\* the tasks callers submit
TaskPriority(t) == IF t = "t1" THEN 2 ELSE IF t = "t2" THEN 3 ELSE 1
TaskCaps(t) == IF t = "t3" THEN {"generate_code"} ELSE {"web_search"}
TaskName(t) == IF t = "t3" THEN "build" ELSE "search"
DepChoices(t) ==
  IF t = "t1" THEN {{}}
  ELSE IF t = "t2" THEN {{}, {"t1"}}
  ELSE {{"t1"}, {"t1", "t2"}}

\* ----------------------------------------------------------------- state
VARIABLES
  agents,                \* self.agents: agent id -> AgentInfo
  agent_order,           \* key order of self.agents
  agent_connections,     \* keys of self.agent_connections
  tasks,                 \* the HiveTask objects, by task id
  task_queue,            \* self.task_queue (task ids)
  active_tasks,          \* key order of self.active_tasks
  completed_tasks,       \* self.completed_tasks (task ids)
  task_dependencies,     \* self.task_dependencies, in key order
  metrics,               \* self.metrics
  knowledge_base,        \* self.knowledge_base
  message_queue,         \* self.message_queue: the messages not yet handled
  last_selection,        \* under ROUND_ROBIN: the agent the most recent step
                         \* selected and the agents it selected among
  distribution_strategy, \* self.distribution_strategy
  service_agents,        \* HiveService.agents: agent id -> Agent
  service_agent_order,   \* key order of HiveService.agents
  service_tasks,         \* HiveService.tasks: task id -> Task
  service_agent_tasks,   \* HiveService.agent_tasks: agent id -> task ids
  now,                   \* datetime.now(), in seconds
  scheduler_alive,       \* the _task_scheduler coroutine has not died
  raised,                \* exception the most recent step ended with
  last_step              \* what ran most recently: a pass of a background
                         \* loop, a call or handler, or only the clock

vars ==
  <<agents, agent_order, agent_connections, tasks, task_queue, active_tasks,
    completed_tasks, task_dependencies, metrics, knowledge_base,
    message_queue, last_selection, distribution_strategy, service_agents,
    service_agent_order, service_tasks, service_agent_tasks, now,
    scheduler_alive, raised, last_step>>

\* the state of the API's HiveService
service_vars ==
  <<service_agents, service_agent_order, service_tasks, service_agent_tasks>>

\* ---------------------------------------------------------------- helpers
Range(s) == {s[i] : i \in 1..Len(s)}

RemoveKey(s, k) == SelectSeq(s, LAMBDA x : x # k)

\* list.remove(x): drops the first occurrence
RemoveFirst(s, x) ==
  IF \E i \in 1..Len(s) : s[i] = x
  THEN LET i == CHOOSE j \in 1..Len(s) :
                  s[j] = x /\ \A k \in 1..(j - 1) : s[k] # x
       IN  SubSeq(s, 1, i - 1) \o SubSeq(s, i + 1, Len(s))
  ELSE s

\* dict without key k
Without(f, k) == [x \in (DOMAIN f) \ {k} |-> f[x]]

\* dict with f[k] = v
With(f, k, v) == [x \in (DOMAIN f) \cup {k} |-> IF x = k THEN v ELSE f[x]]

\* (a - b).seconds for a >= b
Seconds(d) == d % SecondsPerDay

\* AgentInfo as the registering caller builds it
AgentInfo(a, ml) ==
  [capabilities |-> AgentCaps(a), status |-> "idle", last_heartbeat |-> now,
   current_load |-> 0, max_load |-> ml, success_rate |-> 1000000,
   average_task_time |-> 0]

\* HiveTask as the submitting caller builds it; completed_at and result are
\* written and never read back, and are left out
HiveTask(t, deps) ==
  [priority |-> TaskPriority(t), required_capabilities |-> TaskCaps(t),
   dependencies |-> deps, assigned_to |-> None, started_at |-> NoTime,
   error |-> FALSE]

\* no selection was made
NoSelection == [agent |-> None, avail |-> {}]

\* the coordinator's mutable fields as one value, so that the body of a
\* method can be applied several times within one step
Cur ==
  [agents |-> agents, agent_order |-> agent_order,
   agent_connections |-> agent_connections, tasks |-> tasks,
   task_queue |-> task_queue, active_tasks |-> active_tasks,
   completed_tasks |-> completed_tasks,
   task_dependencies |-> task_dependencies, metrics |-> metrics,
   knowledge_base |-> knowledge_base, message_queue |-> message_queue,
   last_selection |-> NoSelection, raised |-> None]

Commit(S) ==
  /\ agents' = S.agents
  /\ agent_order' = S.agent_order
  /\ agent_connections' = S.agent_connections
  /\ tasks' = S.tasks
  /\ task_queue' = S.task_queue
  /\ active_tasks' = S.active_tasks
  /\ completed_tasks' = S.completed_tasks
  /\ task_dependencies' = S.task_dependencies
  /\ metrics' = S.metrics
  /\ knowledge_base' = S.knowledge_base
  /\ message_queue' = S.message_queue
  /\ last_selection' = S.last_selection
  /\ UNCHANGED service_vars
  /\ raised' = S.raised

\* -------------------------------------------------------------- selection
\* _get_available_agents
GetAvailableAgents(S, required_capabilities) ==
  SelectSeq(S.agent_order,
            LAMBDA a :
              /\ required_capabilities \subseteq S.agents[a].capabilities
              /\ S.agents[a].current_load < S.agents[a].max_load
              /\ Seconds(now - S.agents[a].last_heartbeat) < HeartbeatTimeout)

\* max(seq, key=key.get): the first element whose key no other exceeds; a
\* key is a fraction <<numerator, denominator>> with a positive denominator
FirstMax(seq, key) ==
  LET Exceeds(x, y) == key[x][1] * key[y][2] > key[y][1] * key[x][2]
  IN  seq[CHOOSE i \in 1..Len(seq) :
            /\ \A j \in 1..Len(seq) : ~Exceeds(seq[j], seq[i])
            /\ \A k \in 1..(i - 1) :
                 \E j \in 1..Len(seq) : Exceeds(seq[j], seq[k])]

\* the score of _select_by_capability without the division by total_caps
CapabilityScore_OverlapOnly(S, a, task) ==
  <<Cardinality(task.required_capabilities \cap S.agents[a].capabilities), 1>>

\* the score of _select_by_capability: overlap / total_caps
CapabilityScore(S, a, task) ==
  LET overlap == Cardinality(task.required_capabilities
                               \cap S.agents[a].capabilities)
      total_caps == Cardinality(S.agents[a].capabilities)
  IN  IF total_caps > 0 THEN <<overlap, total_caps>> ELSE <<0, 1>>

\* _select_by_capability
SelectByCapability(S, avail, task) ==
  FirstMax(avail, [a \in Range(avail) |-> CapabilityScore(S, a, task)])

\* the score of _select_by_performance without its speed term
PerformanceScore_NoSpeed(S, a) == (S.agents[a].success_rate * 7) \div 10

\* the score of _select_by_performance, in millionths
PerformanceScore(S, a) ==
  (S.agents[a].success_rate * 7) \div 10
    + (IF S.agents[a].average_task_time > 0
       THEN 300000000 \div S.agents[a].average_task_time
       ELSE 0)

\* _select_by_performance
SelectByPerformance(S, avail) ==
  FirstMax(avail, [a \in Range(avail) |-> <<PerformanceScore(S, a), 1>>])

\* the first available agent, whatever its load
SelectByLoad_First(S, avail) == avail[1]

\* min(available_agents, key=current_load)
SelectByLoad(S, avail) ==
  FirstMax(avail, [a \in Range(avail) |-> <<0 - S.agents[a].current_load, 1>>])

\* send_message: True when the agent has a connection
SendMessage(S, a) == a \in S.agent_connections

\* _run_task_auction: send_message answers with a bool, and `response.get`
\* on True raises AttributeError
RunTaskAuction(S, avail) ==
  IF \E i \in 1..Len(avail) : SendMessage(S, avail[i])
  THEN "AttributeError"
  ELSE None

\* _select_agent_for_task: an agent id, None, or the exception raised
SelectAgentForTask(S, task) ==
  LET avail == GetAvailableAgents(S, task.required_capabilities)
  IN  IF Len(avail) = 0 THEN None
      ELSE IF distribution_strategy = "capability_based"
        THEN SelectByCapability(S, avail, task)
      ELSE IF distribution_strategy = "load_balanced"
        THEN SelectByLoad(S, avail)
      ELSE IF distribution_strategy = "auction_based"
        THEN RunTaskAuction(S, avail)
      ELSE IF distribution_strategy = "priority_based"
        THEN SelectByPerformance(S, avail)
      ELSE avail[1]

\* _assign_task_to_agent
AssignTaskToAgent(S, t, a) ==
  [S EXCEPT !.tasks[t].assigned_to = a,
            !.tasks[t].started_at = now,
            !.active_tasks = IF t \in Range(@) THEN @ ELSE Append(@, t),
            !.agents[a].current_load = @ + 1]

\* task_dependencies[t] = deps
SetDependencies(td, t, deps) ==
  IF \E i \in 1..Len(td) : td[i].task_id = t
  THEN [i \in 1..Len(td) |->
          IF td[i].task_id = t THEN [task_id |-> t, deps |-> deps] ELSE td[i]]
  ELSE Append(td, [task_id |-> t, deps |-> deps])

\* _schedule_task without its dependency check
ScheduleTask_IgnoreDeps(S, t) ==
  LET agent_id == SelectAgentForTask(S, S.tasks[t])
  IN  IF agent_id = "AttributeError"
        THEN [S EXCEPT !.raised = "AttributeError"]
      ELSE IF agent_id = None THEN S
      ELSE AssignTaskToAgent(S, t, agent_id)

\* the selection _select_agent_for_task returned, noted under ROUND_ROBIN
NoteSelection(S, task, agent_id) ==
  IF distribution_strategy = "round_robin"
  THEN [S EXCEPT !.last_selection =
          [agent |-> agent_id,
           avail |-> Range(GetAvailableAgents(S, task.required_capabilities))]]
  ELSE S

\* _schedule_task
ScheduleTask(S, t) ==
  LET task == S.tasks[t]
      incomplete_deps == task.dependencies \ Range(S.completed_tasks)
  IN  IF task.dependencies # {} /\ incomplete_deps # {}
      THEN [S EXCEPT !.task_dependencies = SetDependencies(@, t, incomplete_deps)]
      ELSE LET agent_id == SelectAgentForTask(S, task)
           IN  IF agent_id = "AttributeError"
                 THEN [S EXCEPT !.raised = "AttributeError"]
               ELSE IF agent_id = None THEN S
               ELSE AssignTaskToAgent(NoteSelection(S, task, agent_id), t,
                                      agent_id)

\* ------------------------------------------------------------------- init
\* HiveCoordinator(config = {"distribution_strategy": ...})
Init ==
  /\ agents = << >>
  /\ agent_order = << >>
  /\ agent_connections = {}
  /\ tasks = << >>
  /\ task_queue = << >>
  /\ active_tasks = << >>
  /\ completed_tasks = << >>
  /\ task_dependencies = << >>
  /\ metrics = [total_agents |-> 0, active_agents |-> 0, total_tasks |-> 0,
                completed_tasks |-> 0, failed_tasks |-> 0,
                hive_efficiency |-> 0]
  /\ knowledge_base = [agent_specializations |-> << >>,
                       task_patterns |-> << >>]
  /\ message_queue = << >>
  /\ last_selection = NoSelection
  /\ service_agents = << >>
  /\ service_agent_order = << >>
  /\ service_tasks = << >>
  /\ service_agent_tasks = << >>
  /\ distribution_strategy \in Strategies
  /\ now = 0
  /\ scheduler_alive = TRUE
  /\ raised = None
  /\ last_step = "call"

\* HiveCoordinator(): the strategy defaults to CAPABILITY_BASED
InitDefault == Init /\ distribution_strategy = "capability_based"

\* --------------------------------------------------------------- registry
\* the body of register_agent
Registered(S, a, agent_info) ==
  [S EXCEPT
     !.agents = With(@, a, agent_info),
     !.agent_order = IF a \in DOMAIN S.agents THEN @ ELSE Append(@, a),
     !.agent_connections = @ \cup {a},
     !.metrics.total_agents = @ + 1,
     !.metrics.active_agents = @ + 1]

\* register_agent with the AgentInfo the caller hands in
RegisterAgentInfo(a, agent_info) ==
  /\ Commit(Registered(Cur, a, agent_info))
  /\ last_step' = "call"
  /\ UNCHANGED <<distribution_strategy, now, scheduler_alive>>

\* register_agent, also reached from _handle_register
RegisterAgent(a, ml) == RegisterAgentInfo(a, AgentInfo(a, ml))

\* _reassign_agent_tasks
ReassignAgentTasks(S, a) ==
  LET tasks_to_reassign ==
        SelectSeq(S.active_tasks, LAMBDA t : S.tasks[t].assigned_to = a)
  IN  [S EXCEPT
        !.tasks = [t \in DOMAIN @ |->
                     IF t \in Range(tasks_to_reassign)
                     THEN [@[t] EXCEPT !.assigned_to = None,
                                       !.started_at = NoTime]
                     ELSE @[t]],
        !.task_queue = @ \o tasks_to_reassign,
        !.active_tasks =
           SelectSeq(@, LAMBDA t : t \notin Range(tasks_to_reassign))]

\* unregister_agent without its `agent_id in self.agents` test
Unregistered_Unguarded(S, a) ==
  ReassignAgentTasks(
    [S EXCEPT !.agents = Without(@, a),
              !.agent_order = RemoveKey(@, a),
              !.agent_connections = @ \ {a},
              !.metrics.active_agents = @ - 1],
    a)

\* the body of unregister_agent
Unregistered(S, a) ==
  IF a \in DOMAIN S.agents
  THEN ReassignAgentTasks(
         [S EXCEPT !.agents = Without(@, a),
                   !.agent_order = RemoveKey(@, a),
                   !.agent_connections = @ \ {a},
                   !.metrics.active_agents = @ - 1],
         a)
  ELSE S

\* unregister_agent, also reached from _handle_unregister
UnregisterAgent(a) ==
  /\ Commit(Unregistered(Cur, a))
  /\ last_step' = "call"
  /\ UNCHANGED <<distribution_strategy, now, scheduler_alive>>

\* the body of _handle_heartbeat
HeartbeatReceived(S, a) ==
  IF a \in DOMAIN S.agents
  THEN [S EXCEPT !.agents[a].last_heartbeat = now]
  ELSE S

\* _handle_heartbeat
HandleHeartbeat(a) ==
  /\ Commit(HeartbeatReceived(Cur, a))
  /\ last_step' = "call"
  /\ UNCHANGED <<distribution_strategy, now, scheduler_alive>>

\* _handle_status_update
HandleStatusUpdate(a, status) ==
  /\ Commit(IF a \in DOMAIN agents
            THEN [Cur EXCEPT !.agents[a].status = status]
            ELSE Cur)
  /\ last_step' = "call"
  /\ UNCHANGED <<distribution_strategy, now, scheduler_alive>>

\* ------------------------------------------------------------------ tasks
RECURSIVE ByPriority(_, _, _)
\* the entries of q whose priority is in ps, most urgent first, entries of
\* one priority in the order they have in q
ByPriority(q, tk, ps) ==
  IF ps = {} THEN << >>
  ELSE LET p == CHOOSE x \in ps : \A y \in ps : x <= y
       IN  SelectSeq(q, LAMBDA t : tk[t].priority = p)
             \o ByPriority(q, tk, ps \ {p})

\* list.sort(key=priority): stable
SortByPriority(q, tk) ==
  ByPriority(q, tk, {tk[t].priority : t \in Range(q)})

\* submit_task; an exception of _schedule_task reaches the caller after the
\* task was queued
SubmitTask(t, deps) ==
  /\ t \notin DOMAIN tasks
  /\ LET tk == With(tasks, t, HiveTask(t, deps))
     IN  Commit(ScheduleTask(
                  [Cur EXCEPT !.tasks = tk,
                              !.task_queue = SortByPriority(Append(@, t), tk),
                              !.metrics.total_tasks = @ + 1],
                  t))
  /\ last_step' = "call"
  /\ UNCHANGED <<distribution_strategy, now, scheduler_alive>>

\* _handle_task_complete without its `task_id in self.active_tasks` test
TaskCompleted_Unchecked(S, t) ==
  [S EXCEPT !.completed_tasks = Append(@, t),
            !.active_tasks = RemoveKey(@, t),
            !.metrics.completed_tasks = @ + 1]

\* the body of _handle_task_complete
TaskCompleted(S, t) ==
  IF t \in Range(S.active_tasks)
  THEN LET a == S.tasks[t].assigned_to
           task_time == now - S.tasks[t].started_at
           done == S.metrics.completed_tasks
           S1 == IF a \in DOMAIN S.agents
                 THEN [S EXCEPT
                        !.agents[a].current_load = @ - 1,
                        !.agents[a].average_task_time =
                           (@ * done + task_time * 1000) \div (done + 1)]
                 ELSE S
       IN  [S1 EXCEPT !.completed_tasks = Append(@, t),
                      !.active_tasks = RemoveKey(@, t),
                      !.metrics.completed_tasks = @ + 1]
  ELSE S

\* _handle_task_complete
HandleTaskComplete(t) ==
  /\ Commit(TaskCompleted(Cur, t))
  /\ last_step' = "call"
  /\ UNCHANGED <<distribution_strategy, now, scheduler_alive>>

\* _handle_task_failed retrying Medium tasks too (`priority <= 3`)
TaskFailed_RetryMedium(S, t) ==
  IF t \in Range(S.active_tasks)
  THEN LET a == S.tasks[t].assigned_to
           S1 == IF a \in DOMAIN S.agents
                 THEN [S EXCEPT
                        !.agents[a].current_load = @ - 1,
                        !.agents[a].success_rate = (@ * 95) \div 100]
                 ELSE S
       IN  IF S.tasks[t].priority <= RetryPriorityLimit
           THEN [S1 EXCEPT !.tasks[t].error = TRUE,
                           !.tasks[t].assigned_to = None,
                           !.tasks[t].started_at = NoTime,
                           !.task_queue = Append(@, t),
                           !.active_tasks = RemoveKey(@, t)]
           ELSE [S1 EXCEPT !.tasks[t].error = TRUE,
                           !.completed_tasks = Append(@, t),
                           !.active_tasks = RemoveKey(@, t),
                           !.metrics.failed_tasks = @ + 1]
  ELSE S

\* the body of _handle_task_failed
TaskFailed(S, t) ==
  IF t \in Range(S.active_tasks)
  THEN LET a == S.tasks[t].assigned_to
           S1 == IF a \in DOMAIN S.agents
                 THEN [S EXCEPT
                        !.agents[a].current_load = @ - 1,
                        !.agents[a].success_rate = (@ * 95) \div 100]
                 ELSE S
       IN  IF S.tasks[t].priority < RetryPriorityLimit
           THEN [S1 EXCEPT !.tasks[t].error = TRUE,
                           !.tasks[t].assigned_to = None,
                           !.tasks[t].started_at = NoTime,
                           !.task_queue = Append(@, t),
                           !.active_tasks = RemoveKey(@, t)]
           ELSE [S1 EXCEPT !.tasks[t].error = TRUE,
                           !.completed_tasks = Append(@, t),
                           !.active_tasks = RemoveKey(@, t),
                           !.metrics.failed_tasks = @ + 1]
  ELSE S

\* _handle_task_failed
HandleTaskFailed(t) ==
  /\ Commit(TaskFailed(Cur, t))
  /\ last_step' = "call"
  /\ UNCHANGED <<distribution_strategy, now, scheduler_alive>>

\* ---------------------------------------------------------------- messages
\* the messages agents put in message_queue
Messages ==
  [type : {"task_complete", "task_failed"}, id : TimedTaskIds]
    \cup [type : {"heartbeat", "unregister"}, id : AgentIds]

\* message_queue.put(message), by an agent's connection
PutMessage(m) ==
  /\ Len(message_queue) < MaxPending
  /\ Commit([Cur EXCEPT !.message_queue = Append(@, m)])
  /\ last_step' = "put"
  /\ UNCHANGED <<distribution_strategy, now, scheduler_alive>>

\* self.message_handlers[msg_type](message)
Dispatch(S, m) ==
  IF m.type = "task_complete" THEN TaskCompleted(S, m.id)
  ELSE IF m.type = "task_failed" THEN TaskFailed(S, m.id)
  ELSE IF m.type = "heartbeat" THEN HeartbeatReceived(S, m.id)
  ELSE Unregistered(S, m.id)

\* one pass of the loop of _process_messages: takes the oldest message and
\* runs its handler
ProcessMessages ==
  /\ message_queue # << >>
  /\ Commit(Dispatch([Cur EXCEPT !.message_queue = Tail(@)],
                      Head(message_queue)))
  /\ last_step' = "process_messages"
  /\ UNCHANGED <<distribution_strategy, now, scheduler_alive>>

\* --------------------------------------------------------- background loops
\* _task_scheduler testing `deps == completed_ids` instead of issubset
ReadyEntries_Equal(S) ==
  SelectSeq(S.task_dependencies,
            LAMBDA e : /\ e.deps = Range(S.completed_tasks)
                       /\ e.task_id \in Range(S.task_queue))

\* the entries of task_dependencies one pass of _task_scheduler finds ready
ReadyEntries(S) ==
  SelectSeq(S.task_dependencies,
            LAMBDA e : /\ e.deps \subseteq Range(S.completed_tasks)
                       /\ e.task_id \in Range(S.task_queue))

RECURSIVE ScheduleReady(_, _)
\* `for task in ready_tasks`: an exception ends the loop
ScheduleReady(S, ready) ==
  IF ready = << >> \/ S.raised # None THEN S
  ELSE ScheduleReady(
         ScheduleTask([S EXCEPT !.task_queue = RemoveFirst(@, ready[1].task_id)],
                      ready[1].task_id),
         Tail(ready))

\* one pass of the loop of _task_scheduler; an exception ends the coroutine
TaskScheduler ==
  /\ scheduler_alive
  /\ LET ready == ReadyEntries(Cur)
         S1 == [Cur EXCEPT !.task_dependencies =
                  SelectSeq(@, LAMBDA e : e \notin Range(ready))]
         S2 == ScheduleReady(S1, ready)
     IN  /\ Commit(S2)
         /\ scheduler_alive' = (S2.raised = None)
  /\ last_step' = "task_scheduler"
  /\ UNCHANGED <<distribution_strategy, now>>

RECURSIVE EvictStale(_, _)
\* `for agent_id, agent_info in list(self.agents.items())`
EvictStale(S, snapshot) ==
  IF snapshot = << >> THEN S
  ELSE LET a == Head(snapshot)
       IN  EvictStale(
             IF Seconds(now - S.agents[a].last_heartbeat) > HeartbeatTimeout
             THEN Unregistered(S, a)
             ELSE S,
             Tail(snapshot))

\* one pass of the loop of _health_monitor
HealthMonitor ==
  /\ Commit(EvictStale(Cur, agent_order))
  /\ last_step' = "health_monitor"
  /\ UNCHANGED <<distribution_strategy, now, scheduler_alive>>

\* the last HistoryWindow entries of the completed history
RecentHistory(S) ==
  LET n == Len(S.completed_tasks)
  IN  SubSeq(S.completed_tasks,
             IF n > HistoryWindow THEN n - HistoryWindow + 1 ELSE 1, n)

\* a defaultdict(int) counting, for every key, the entries of seq under it
CountBy(seq, keys) ==
  LET all == UNION {keys[seq[i]] : i \in 1..Len(seq)}
  IN  [k \in all |-> Cardinality({i \in 1..Len(seq) : k \in keys[seq[i]]})]

\* _analyze_task_patterns
AnalyzeTaskPatterns(S) ==
  IF Len(S.completed_tasks) < PatternThreshold THEN S
  ELSE LET recent == RecentHistory(S)
           NameOf == [t \in Range(recent) |-> {TaskName(t)}]
           CapsOf == [t \in Range(recent) |-> S.tasks[t].required_capabilities]
       IN  [S EXCEPT !.knowledge_base.task_patterns =
              [frequent_tasks |-> CountBy(recent, NameOf),
               capability_demand |-> CountBy(recent, CapsOf)]]

RECURSIVE SumOver(_, _)
\* sum(f[x] for x in seq)
SumOver(seq, f) ==
  IF seq = << >> THEN 0 ELSE f[Head(seq)] + SumOver(Tail(seq), f)

RECURSIVE SumValues(_)
\* sum(f.values())
SumValues(f) ==
  IF DOMAIN f = {} THEN 0
  ELSE LET k == CHOOSE x \in DOMAIN f : TRUE
       IN  f[k] + SumValues(Without(f, k))

\* _optimize_agent_specializations: shares are <<count, total_demand>>
OptimizeAgentSpecializations(S) ==
  IF DOMAIN S.knowledge_base.task_patterns = {} THEN S
  ELSE LET capability_demand == S.knowledge_base.task_patterns.capability_demand
           total_demand == SumValues(capability_demand)
       IN  IF total_demand > 0
           THEN [S EXCEPT !.knowledge_base.agent_specializations =
                   [c \in DOMAIN capability_demand |->
                      <<capability_demand[c], total_demand>>]]
           ELSE S

\* _calculate_hive_efficiency; a max_load of 0 raises ZeroDivisionError
CalculateHiveEfficiency(S) ==
  IF S.metrics.total_tasks > 0
  THEN IF \E a \in DOMAIN S.agents : S.agents[a].max_load = 0
       THEN [S EXCEPT !.raised = "ZeroDivisionError"]
       ELSE LET completion_rate ==
                  (S.metrics.completed_tasks * 1000000) \div S.metrics.total_tasks
                utilization ==
                  [a \in DOMAIN S.agents |->
                     (S.agents[a].current_load * 1000000) \div S.agents[a].max_load]
                avg_utilization ==
                  IF S.agent_order # << >>
                  THEN SumOver(S.agent_order, utilization) \div Len(S.agent_order)
                  ELSE 0
            IN  [S EXCEPT !.metrics.hive_efficiency =
                   (completion_rate * 6 + avg_utilization * 4) \div 10]
  ELSE S

\* one pass of the loop of _optimize_hive
OptimizeHive ==
  /\ Commit(CalculateHiveEfficiency(
              OptimizeAgentSpecializations(AnalyzeTaskPatterns(Cur))))
  /\ last_step' = "optimize_hive"
  /\ UNCHANGED <<distribution_strategy, now, scheduler_alive>>

\* how often the clock was advanced to reach `now`
Advances == (now \div SecondsPerDay) + ((now % SecondsPerDay) \div StaleStep)

\* time passes
AdvanceClock ==
  /\ Advances < MaxAdvances
  /\ \E d \in {StaleStep, SecondsPerDay} : now' = now + d
  /\ last_step' = "clock"
  /\ UNCHANGED <<agents, agent_order, agent_connections, tasks, task_queue,
                 active_tasks, completed_tasks, task_dependencies, metrics,
                 knowledge_base, message_queue, last_selection,
                 distribution_strategy, service_agents, service_agent_order,
                 service_tasks, service_agent_tasks, scheduler_alive, raised>>

\* every operation of a coordinator built with the default configuration,
\* on two tasks, with the clock running
Next ==
  \/ TaskScheduler
  \/ HealthMonitor
  \/ \E a \in AgentIds :
       metrics.total_agents < MaxRegistrations /\ RegisterAgent(a, TimedLoad(a))
  \/ \E a \in AgentIds : UnregisterAgent(a)
  \/ \E a \in AgentIds : HandleHeartbeat(a)
  \/ \E a \in AgentIds : HandleStatusUpdate(a, "terminated")
  \/ \E t \in TimedTaskIds, deps \in SUBSET TaskIds :
       deps \in DepChoices(t) /\ SubmitTask(t, deps)
  \/ \E t \in TimedTaskIds : HandleTaskComplete(t)
  \/ \E t \in TimedTaskIds : HandleTaskFailed(t)
  \/ AdvanceClock

Spec == InitDefault /\ [][Next]_vars

\* the same with the metrics loop running
NextMetrics ==
  \/ Next
  \/ OptimizeHive

SpecMetrics == InitDefault /\ [][NextMetrics]_vars

\* every operation under every strategy, on one task, with the clock running
NextHandlers ==
  \/ TaskScheduler
  \/ HealthMonitor
  \/ \E a \in AgentIds :
       metrics.total_agents < MaxRegistrations /\ RegisterAgent(a, TimedLoad(a))
  \/ \E a \in AgentIds : UnregisterAgent(a)
  \/ \E a \in AgentIds : HandleHeartbeat(a)
  \/ \E a \in AgentIds : HandleStatusUpdate(a, "terminated")
  \/ \E t \in HandlerTaskIds, deps \in SUBSET TaskIds :
       deps \in DepChoices(t) /\ SubmitTask(t, deps)
  \/ \E t \in TaskIds : HandleTaskComplete(t)
  \/ \E t \in TaskIds : HandleTaskFailed(t)
  \/ AdvanceClock

SpecHandlers == Init /\ [][NextHandlers]_vars

\* the default configuration with the loops scheduled again and again (each
\* sleeps a fixed time and runs) and every report for an Active task
\* delivered
SpecRecovery ==
  /\ InitDefault
  /\ [][NextHandlers]_vars
  /\ WF_vars(TaskScheduler)
  /\ WF_vars(HealthMonitor)
  /\ WF_vars(\E t \in TaskIds : HandleTaskComplete(t))

\* AgentInfo with the statistics the registering caller declares
AgentInfoWith(caps, ml, rate, time) ==
  [capabilities |-> caps, status |-> "idle", last_heartbeat |-> now,
   current_load |-> 0, max_load |-> ml, success_rate |-> rate,
   average_task_time |-> time]

\* ------------------------------------------------------------ HiveService
\* the control actions of control_agent
ControlActions == {"pause", "resume", "restart", "terminate"}

\* the coordinator's variables, which HiveService does not touch
coordinator_vars ==
  <<agents, agent_order, agent_connections, tasks, task_queue, active_tasks,
    completed_tasks, task_dependencies, metrics, knowledge_base,
    message_queue, last_selection, distribution_strategy, now,
    scheduler_alive>>

\* the service's mutable fields as one value
ServiceCur ==
  [agents |-> service_agents, agent_order |-> service_agent_order,
   tasks |-> service_tasks, agent_tasks |-> service_agent_tasks,
   raised |-> None]

ServiceCommit(S) ==
  /\ service_agents' = S.agents
  /\ service_agent_order' = S.agent_order
  /\ service_tasks' = S.tasks
  /\ service_agent_tasks' = S.agent_tasks
  /\ raised' = S.raised
  /\ last_step' = "service"
  /\ UNCHANGED coordinator_vars

\* self.agent_tasks.get(agent_id, [])
AgentTasks(S, a) ==
  IF a \in DOMAIN S.agent_tasks THEN S.agent_tasks[a] ELSE << >>

\* the body of HiveService.register_agent
ServiceRegistered(S, a) ==
  IF Len(S.agent_order) >= max_agents
  THEN [S EXCEPT !.raised = "ValueError"]
  ELSE [S EXCEPT
         !.agents = With(@, a, [status |-> "idle", current_task |-> None]),
         !.agent_order = IF a \in DOMAIN S.agents THEN @ ELSE Append(@, a)]

\* the body of HiveService.unregister_agent
ServiceUnregistered(S, a) ==
  IF a \in DOMAIN S.agents
  THEN [S EXCEPT
         !.tasks = [t \in DOMAIN @ |->
                      IF t \in Range(AgentTasks(S, a)) /\ @[t].status = "running"
                      THEN [@[t] EXCEPT !.status = "cancelled",
                                        !.assigned_agent = None]
                      ELSE @[t]],
         !.agents = Without(@, a),
         !.agent_order = RemoveKey(@, a)]
  ELSE S

\* the body of HiveService.control_agent
ServiceControlled(S, a, action) ==
  IF a \notin DOMAIN S.agents THEN [S EXCEPT !.raised = "ValueError"]
  ELSE IF action = "pause" THEN [S EXCEPT !.agents[a].status = "idle"]
  ELSE IF action = "resume" THEN [S EXCEPT !.agents[a].status = "working"]
  ELSE IF action = "restart"
    THEN [S EXCEPT !.agents[a].status = "idle",
                   !.agents[a].current_task = None]
  ELSE IF action = "terminate"
    THEN ServiceUnregistered([S EXCEPT !.agents[a].status = "terminated"], a)
  ELSE S

\* the body of HiveService.assign_task: the first idle agent takes the task
ServiceAssigned(S, t) ==
  IF t \notin DOMAIN S.tasks THEN S
  ELSE IF S.tasks[t].status # "queued" THEN S
  ELSE LET idle == SelectSeq(S.agent_order,
                             LAMBDA a : S.agents[a].status = "idle")
       IN  IF idle = << >> THEN S
           ELSE LET a == idle[1]
                IN  [S EXCEPT
                      !.tasks[t].assigned_agent = a,
                      !.tasks[t].status = "running",
                      !.agents[a].current_task = t,
                      !.agents[a].status = "working",
                      !.agent_tasks = With(@, a, Append(AgentTasks(S, a), t))]

\* the body of HiveService.submit_task; the queue of ids it also fills is
\* never read
ServiceSubmitted(S, t) ==
  ServiceAssigned(
    [S EXCEPT !.tasks = With(@, t, [status |-> "queued",
                                    assigned_agent |-> None])],
    t)

\* the agent update complete_task and fail_task share
AgentReleased(S, t) ==
  LET a == S.tasks[t].assigned_agent
  IN  IF a # None /\ a \in DOMAIN S.agents
      THEN [S EXCEPT !.agents[a].current_task = None,
                     !.agents[a].status = "idle"]
      ELSE S

\* the body of HiveService.complete_task
ServiceCompleted(S, t) ==
  IF t \in DOMAIN S.tasks
  THEN AgentReleased([S EXCEPT !.tasks[t].status = "completed"], t)
  ELSE S

\* the body of HiveService.fail_task
ServiceFailed(S, t) ==
  IF t \in DOMAIN S.tasks
  THEN AgentReleased([S EXCEPT !.tasks[t].status = "failed"], t)
  ELSE S

\* the body of HiveService.cancel_task
ServiceCancelled(S, t) ==
  IF t \in DOMAIN S.tasks
  THEN LET a == S.tasks[t].assigned_agent
           S1 == [S EXCEPT !.tasks[t].status = "cancelled"]
       IN  IF a # None /\ a \in DOMAIN S.agents
              /\ S.agents[a].current_task = t
           THEN [S1 EXCEPT !.agents[a].current_task = None,
                           !.agents[a].status = "idle"]
           ELSE S1
  ELSE S

\* the calls of the API into HiveService
ServiceRegisterAgent(a) == ServiceCommit(ServiceRegistered(ServiceCur, a))
ServiceUnregisterAgent(a) == ServiceCommit(ServiceUnregistered(ServiceCur, a))
ServiceControlAgent(a, action) ==
  ServiceCommit(ServiceControlled(ServiceCur, a, action))
ServiceSubmitTask(t) ==
  t \notin DOMAIN service_tasks /\ ServiceCommit(ServiceSubmitted(ServiceCur, t))
ServiceAssignTask(t) == ServiceCommit(ServiceAssigned(ServiceCur, t))
ServiceCompleteTask(t) == ServiceCommit(ServiceCompleted(ServiceCur, t))
ServiceFailTask(t) == ServiceCommit(ServiceFailed(ServiceCur, t))
ServiceCancelTask(t) == ServiceCommit(ServiceCancelled(ServiceCur, t))

NextService ==
  \/ \E a \in AgentIds : ServiceRegisterAgent(a)
  \/ \E a \in AgentIds : ServiceUnregisterAgent(a)
  \/ \E a \in AgentIds, action \in ControlActions : ServiceControlAgent(a, action)
  \/ \E t \in TimedTaskIds : ServiceSubmitTask(t)
  \/ \E t \in TimedTaskIds : ServiceAssignTask(t)
  \/ \E t \in TimedTaskIds : ServiceCompleteTask(t)
  \/ \E t \in TimedTaskIds : ServiceFailTask(t)
  \/ \E t \in TimedTaskIds : ServiceCancelTask(t)

SpecService == InitDefault /\ [][NextService]_vars

\* the default configuration with agents reporting through message_queue:
\* the message loop and the scheduler are separate coroutines
NextMessages ==
  \/ TaskScheduler
  \/ ProcessMessages
  \/ \E m \in Messages : PutMessage(m)
  \/ \E a \in AgentIds :
       metrics.total_agents < MaxRegistrations /\ RegisterAgent(a, TimedLoad(a))
  \/ \E t \in TimedTaskIds, deps \in SUBSET TaskIds :
       deps \in DepChoices(t) /\ SubmitTask(t, deps)

SpecMessages == InitDefault /\ [][NextMessages]_vars

\* agents of every declared profile register once, and independent tasks
\* are submitted and completed, under every strategy
NextSelection ==
  \/ \E a \in AgentIds \ DOMAIN agents, caps \in SelectionCaps,
        ml \in LoadChoices, rate \in SelectionRates, time \in SelectionTimes :
       /\ metrics.total_agents < MaxRegistrations
       /\ RegisterAgentInfo(a, AgentInfoWith(caps, ml, rate, time))
  \/ \E t \in TimedTaskIds : SubmitTask(t, {})
  \/ \E t \in TimedTaskIds : HandleTaskComplete(t)

SpecSelection == Init /\ [][NextSelection]_vars

\* one agent and a caller that submits a task, waits for its completion
\* and submits the next
NextHistory ==
  \/ agent_order = << >> /\ metrics.total_agents = 0 /\ RegisterAgent("a1", 1)
  \/ /\ active_tasks = << >>
     /\ metrics.total_tasks < HistoryTasks
     /\ SubmitTask(HistoryTaskId(metrics.total_tasks + 1), {})
  \/ \E t \in Range(active_tasks) : HandleTaskComplete(t)

SpecHistory == InitDefault /\ [][NextHistory]_vars

\* the task lifecycle under every strategy, on three tasks, all within one
\* second
NextLifecycle ==
  \/ TaskScheduler
  \/ \E a \in AgentIds, ml \in LoadChoices :
       metrics.total_agents < MaxRegistrations /\ RegisterAgent(a, ml)
  \/ \E a \in AgentIds : UnregisterAgent(a)
  \/ \E a \in AgentIds : HandleStatusUpdate(a, "terminated")
  \/ \E t \in TaskIds, deps \in SUBSET TaskIds :
       deps \in DepChoices(t) /\ SubmitTask(t, deps)
  \/ \E t \in TaskIds : HandleTaskComplete(t)
  \/ \E t \in TaskIds : HandleTaskFailed(t)

SpecLifecycle == Init /\ [][NextLifecycle]_vars

\* ------------------------------------------------------------- properties
\* ids in the completed history
CompletedIds == Range(completed_tasks)

\* submitted, dependencies satisfied, neither Active nor terminal
IsReady(t) ==
  /\ t \in DOMAIN tasks
  /\ t \notin Range(active_tasks)
  /\ t \notin CompletedIds
  /\ tasks[t].dependencies \subseteq CompletedIds

\* some registered agent has the capabilities, spare capacity and a fresh
\* heartbeat
HasEligibleAgent(t) ==
  Len(GetAvailableAgents(Cur, tasks[t].required_capabilities)) > 0

\* the coordinator's registry, loads, queue, active set, history and metrics
CoordinatorState ==
  <<agents, agent_order, agent_connections, tasks, task_queue, active_tasks,
    completed_tasks, task_dependencies, metrics>>

\* C1: every registered agent has 0 <= current_load <= max_load.
C1_LoadWithinBounds ==
  \A a \in DOMAIN agents :
    /\ 0 <= agents[a].current_load
    /\ agents[a].current_load <= agents[a].max_load

\* C2: an Active task has every one of its dependencies in the completed
\* history.
C2_DependenciesRespected ==
  \A t \in Range(active_tasks) : tasks[t].dependencies \subseteq CompletedIds

\* a task with dependencies is Active, and another still waits on a
\* dependency that has not completed
C2_Witness ==
  /\ \E t \in Range(active_tasks) : tasks[t].dependencies # {}
  /\ \E i \in 1..Len(task_dependencies) :
       ~(task_dependencies[i].deps \subseteq CompletedIds)

\* C3: an Active task is assigned to a registered agent whose current_load
\* counts it.
C3_LoadAccountsForActive ==
  \A t \in Range(active_tasks) :
    LET a == tasks[t].assigned_to
    IN  /\ a \in DOMAIN agents
        /\ agents[a].current_load
             >= Cardinality({u \in Range(active_tasks) :
                               tasks[u].assigned_to = a})

\* C4: after a pass of the scheduler no Ready task is left that an eligible
\* agent could take.
C4_ReadyAssignedWithinTick ==
  last_step = "task_scheduler"
  => \A t \in DOMAIN tasks : IsReady(t) => ~HasEligibleAgent(t)

\* C5: a Ready task is in the queue, and when a pass of the scheduler leaves
\* it there no agent was eligible for it.
C5_ReadyStaysQueuedAndRetried ==
  \A t \in DOMAIN tasks :
    IsReady(t)
    => /\ t \in Range(task_queue)
       /\ last_step = "task_scheduler" => ~HasEligibleAgent(t)

C7_StaleAgentEvicted ==
  [][HealthMonitor =>
       \A a \in DOMAIN agents :
         now - agents[a].last_heartbeat > HeartbeatTimeout
         => /\ a \notin DOMAIN agents'
            /\ \A t \in Range(active_tasks) :
                 tasks[t].assigned_to = a
                 => /\ t \in Range(task_queue')
                    /\ t \notin Range(active_tasks')
                    /\ tasks'[t].assigned_to = None]_vars

\* C8: TaskFailed for an Active task takes one off the load of the agent
\* holding it; a task of priority below 3 goes back to the queue, unassigned
\* and not counted as failed; any other goes to the completed history and
\* is counted as failed.  No task in the completed history becomes Active.
C8_TaskFailedOutcome ==
  [][/\ \A t \in Range(active_tasks) :
          HandleTaskFailed(t)
          => LET a == tasks[t].assigned_to
             IN  /\ a \in DOMAIN agents /\ a \in DOMAIN agents'
                 /\ agents'[a].current_load = agents[a].current_load - 1
                 /\ t \notin Range(active_tasks')
                 /\ IF tasks[t].priority < 3
                    THEN /\ t \in Range(task_queue')
                         /\ tasks'[t].assigned_to = None
                         /\ t \notin Range(completed_tasks')
                         /\ metrics'.failed_tasks = metrics.failed_tasks
                    ELSE /\ t \in Range(completed_tasks')
                         /\ metrics'.failed_tasks = metrics.failed_tasks + 1
     /\ \A t \in CompletedIds : t \notin Range(active_tasks')]_vars

\* one failed task was put back in the queue and another failed for good
C8_Witness ==
  /\ \E t \in Range(task_queue) :
       /\ tasks[t].error
       /\ t \notin Range(active_tasks)
       /\ tasks[t].assigned_to = None
  /\ \E t \in CompletedIds : tasks[t].error /\ metrics.failed_tasks > 0

\* C9: a register call made while the registry holds max_agents agents
\* raises a capacity error and changes nothing.
C9_RegisterRejectedWhenFull ==
  [][\A a \in AgentIds :
       (Cardinality(DOMAIN agents) >= max_agents
          /\ RegisterAgent(a, TimedLoad(a)))
       => (raised' = "capacity_exceeded" /\ UNCHANGED CoordinatorState)]_vars

\* C10: Heartbeat, StatusUpdate and Unregister for an unregistered agent,
\* and TaskComplete and TaskFailed for a task that is not Active, change
\* nothing and raise nothing.
C10_UnknownIdIsNoOp ==
  [][/\ \A a \in AgentIds \ DOMAIN agents :
          (HandleHeartbeat(a) \/ HandleStatusUpdate(a, "terminated")
             \/ UnregisterAgent(a))
          => (UNCHANGED CoordinatorState /\ raised' = None)
     /\ \A t \in TaskIds \ Range(active_tasks) :
          (HandleTaskComplete(t) \/ HandleTaskFailed(t))
          => (UNCHANGED CoordinatorState /\ raised' = None)]_vars

\* an agent is gone and a task it held is back in the queue, where it now
\* stands twice, so a report for it would come late
C10_Witness ==
  \E a \in AgentIds \ DOMAIN agents, t \in DOMAIN tasks :
    /\ metrics.active_agents < metrics.total_agents
    /\ t \notin Range(active_tasks)
    /\ ~tasks[t].error
    /\ Cardinality({i \in 1..Len(task_queue) : task_queue[i] = t}) = 2

\* C11: the hive efficiency the metrics loop computes lies in [0, 1], and
\* at every pass of the loop completed <= total submitted and every agent
\* has 0 <= current_load <= max_load.
C11_EfficiencyInUnitInterval ==
  /\ 0 <= metrics.hive_efficiency
  /\ metrics.hive_efficiency <= 1000000
  /\ last_step = "optimize_hive"
     => /\ metrics.completed_tasks <= metrics.total_tasks
        /\ \A a \in DOMAIN agents :
             /\ 0 <= agents[a].current_load
             /\ agents[a].current_load <= agents[a].max_load

\* the queue is in ascending priority value
QueueSorted(q, tk) ==
  \A i, j \in 1..Len(q) : i < j => tk[q[i]].priority <= tk[q[j]].priority

\* the tasks a pass of the scheduler finds ready
ReadyIds == {ReadyEntries(Cur)[i].task_id : i \in 1..Len(ReadyEntries(Cur))}

\* C12: the queue is sorted by priority after every step (submit_task, a
\* failed task requeued, an unregistered agent's tasks requeued), and a pass
\* of the scheduler that assigns a task leaves no more urgent task it found
\* ready unassigned while an agent was eligible for it.
C12_PriorityOrderWithinTick ==
  [][/\ QueueSorted(task_queue, tasks)'
     /\ TaskScheduler
        => \A t, u \in ReadyIds :
             (/\ tasks[t].priority < tasks[u].priority
              /\ u \in Range(active_tasks')
              /\ HasEligibleAgent(t))
             => t \in Range(active_tasks')]_vars

\* C13: a task that becomes Active is assigned to a registered agent that
\* has every required capability, had room for all the tasks the step gave
\* it, and whose heartbeat is younger than the timeout.
C13_AssignedOnlyToEligible ==
  [][\A t \in DOMAIN tasks' :
       (t \in Range(active_tasks') /\ t \notin Range(active_tasks))
       => \E a \in DOMAIN agents :
            /\ tasks'[t].assigned_to = a
            /\ tasks'[t].required_capabilities \subseteq agents[a].capabilities
            /\ agents[a].current_load
                 + Cardinality({u \in Range(active_tasks') \ Range(active_tasks) :
                                  tasks'[u].assigned_to = a})
                 <= agents[a].max_load
            /\ now - agents[a].last_heartbeat < HeartbeatTimeout]_vars

\* C14: the current_load of a registered agent is the number of Active
\* tasks assigned to it.
C14_LoadEqualsActiveCount ==
  \A a \in DOMAIN agents :
    agents[a].current_load
      = Cardinality({t \in Range(active_tasks) : tasks[t].assigned_to = a})

\* C15: no Active task has a dependency that ended terminally Failed.
C15_FailedDependencyBlocks ==
  \A t \in Range(active_tasks) :
    \A d \in tasks[t].dependencies :
      ~(d \in CompletedIds /\ tasks[d].error)

\* the agent that held t is gone: t is back in the queue a second time,
\* unassigned, without having failed
Orphaned(t) ==
  /\ t \in DOMAIN tasks
  /\ t \notin Range(active_tasks)
  /\ t \notin CompletedIds
  /\ ~tasks[t].error
  /\ Cardinality({i \in 1..Len(task_queue) : task_queue[i] = t}) = 2

\* C16: a task whose agent disappeared while another eligible agent is
\* healthy is eventually Active again (or no agent is eligible any more).
C16_OrphanedTaskReassigned ==
  \A t \in HandlerTaskIds :
    (Orphaned(t) /\ HasEligibleAgent(t))
      ~> (t \in Range(active_tasks) \/ ~(Orphaned(t) /\ HasEligibleAgent(t)))

\* C17: right after unregister_agent(a), for a registered or an unknown a,
\* a second unregister_agent(a) would leave the registry, the queue, the
\* active set and the metrics as they are.
C17_UnregisterIdempotent ==
  [][\A a \in AgentIds :
       UnregisterAgent(a) => (Unregistered(Cur, a) = Cur)']_vars

\* an agent that held a task was unregistered: it is gone and the task is
\* back in the queue, unassigned
C17_Witness ==
  /\ last_step = "call"
  /\ metrics.active_agents < metrics.total_agents
  /\ Cardinality(DOMAIN agents) = metrics.active_agents
  /\ \E t \in DOMAIN tasks :
       /\ tasks[t].assigned_to = None
       /\ tasks[t].started_at = NoTime
       /\ ~tasks[t].error
       /\ task_queue[Len(task_queue)] = t
       /\ Cardinality({i \in 1..Len(task_queue) : task_queue[i] = t}) = 2

\* C18: no Active task is assigned to an agent whose status is Terminated.
C18_TerminatedHoldsNoTasks ==
  \A a \in DOMAIN agents :
    agents[a].status = "terminated"
    => \A t \in Range(active_tasks) : tasks[t].assigned_to # a

\* failed, put back for another attempt, and not terminal
FailedUrgent(t) ==
  /\ tasks[t].error
  /\ tasks[t].priority < RetryPriorityLimit
  /\ t \notin Range(active_tasks)

\* C20: a failed task more urgent than Medium never becomes terminal, and
\* every pass of the scheduler assigns it again when an agent is eligible,
\* however often it has failed before.
C20_UrgentRetriedWithoutBound ==
  \A t \in DOMAIN tasks :
    FailedUrgent(t)
    => /\ t \notin CompletedIds
       /\ last_step = "task_scheduler" => ~HasEligibleAgent(t)

\* C19: the completed history only grows at its end, a task in it does not
\* become Active again, and it never holds more than HistoryWindow entries.
C19_HistoryAppendOnlyAndCapped ==
  [][/\ Len(completed_tasks') >= Len(completed_tasks)
     /\ SubSeq(completed_tasks', 1, Len(completed_tasks)) = completed_tasks
     /\ \A t \in CompletedIds : t \notin Range(active_tasks')
     /\ Len(completed_tasks') <= HistoryWindow]_vars

\* b stands before a in the key order of self.agents
Before(b, a) ==
  \E i, j \in 1..Len(agent_order) :
    i < j /\ agent_order[i] = b /\ agent_order[j] = a

\* the agents eligible for task t as the step starts
Eligible(t) == Range(GetAvailableAgents(Cur, TaskCaps(t)))

\* C21: under ROUND_ROBIN, two selections in a row among the same two or
\* more eligible agents do not return the same agent.
C21_RoundRobinCycles ==
  [][(/\ distribution_strategy = "round_robin"
      /\ last_selection # NoSelection
      /\ last_selection' # NoSelection
      /\ last_selection'.avail = last_selection.avail
      /\ Cardinality(last_selection.avail) >= 2)
     => last_selection'.agent # last_selection.agent]_vars

\* C23: under LOAD_BALANCED, a task that becomes Active goes to an eligible
\* agent of minimum current_load, the earliest registered of them.
C23_LoadBalancedPicksMinLoad ==
  [][distribution_strategy = "load_balanced"
     => \A t \in TaskIds :
          (t \in Range(active_tasks') /\ t \notin Range(active_tasks))
          => \E a \in Eligible(t) :
               /\ tasks'[t].assigned_to = a
               /\ \A b \in Eligible(t) :
                    /\ agents[a].current_load <= agents[b].current_load
                    /\ Before(b, a)
                       => agents[a].current_load < agents[b].current_load]_vars

\* under LOAD_BALANCED the second registered agent got a task because the
\* first, with room left, already held one
C23_Witness ==
  /\ distribution_strategy = "load_balanced"
  /\ Len(agent_order) = 2
  /\ \A a \in DOMAIN agents :
       /\ agents[a].max_load = 2
       /\ agents[a].current_load = 1
       /\ \E t \in Range(active_tasks) : tasks[t].assigned_to = a

\* |required /\ capabilities| / |capabilities| as <<numerator, denominator>>,
\* 0 without capabilities
MatchRatio(required, capabilities) ==
  IF capabilities = {} THEN <<0, 1>>
  ELSE <<Cardinality(required \cap capabilities), Cardinality(capabilities)>>

PerformanceFormula(rate, time) ==
  (7 * rate) \div 10 + (IF time = 0 THEN 0 ELSE (3 * 100000000) \div time)

\* C25: under PRIORITY_BASED, a task that becomes Active goes to an eligible
\* agent of maximal success_rate * 0.7 + (1 / average_task_time) * 0.3, the
\* speed term being 0 for an average_task_time of 0; and 0.95 with 1 s
\* scores 0.965, 0.9 with 2 s scores 0.78.
C25_PriorityBasedPicksBestPerformer ==
  [][/\ PerformanceFormula(950000, 1000) = 965000
     /\ PerformanceFormula(900000, 2000) = 780000
     /\ distribution_strategy = "priority_based"
        => \A t \in TaskIds :
             (t \in Range(active_tasks') /\ t \notin Range(active_tasks))
             => \E a \in Eligible(t) :
                  /\ tasks'[t].assigned_to = a
                  /\ \A b \in Eligible(t) :
                       PerformanceFormula(agents[b].success_rate,
                                          agents[b].average_task_time)
                         <= PerformanceFormula(agents[a].success_rate,
                                               agents[a].average_task_time)]_vars

\* under PRIORITY_BASED the second registered agent (0.95, 1 s) got the task
\* although the first (0.9, 2 s) had room
C25_Witness ==
  /\ distribution_strategy = "priority_based"
  /\ Len(agent_order) = 2
  /\ agents[agent_order[1]].success_rate = 900000
  /\ agents[agent_order[1]].average_task_time = 2000
  /\ agents[agent_order[1]].current_load = 0
  /\ agents[agent_order[2]].success_rate = 950000
  /\ agents[agent_order[2]].average_task_time = 1000
  /\ \E t \in Range(active_tasks) : tasks[t].assigned_to = agent_order[2]

\* C22: a pass of the scheduler first handles every message that is pending
\* when it starts, so none is pending afterwards, a task whose TaskComplete
\* was pending is in the completed history, and every Waiting task whose
\* dependencies are complete with it has left Waiting.
C22_TickDrainsMessagesFirst ==
  [][TaskScheduler
     => /\ message_queue' = << >>
        /\ \A i \in 1..Len(message_queue) :
             (/\ message_queue[i].type = "task_complete"
              /\ message_queue[i].id \in Range(active_tasks))
             => /\ message_queue[i].id \in Range(completed_tasks')
                /\ \A u \in DOMAIN tasks :
                     (/\ \E j \in 1..Len(task_dependencies) :
                           task_dependencies[j].task_id = u
                      /\ tasks[u].dependencies
                           \subseteq CompletedIds \cup {message_queue[i].id})
                     => \A j \in 1..Len(task_dependencies') :
                          task_dependencies'[j].task_id # u]_vars

\* C26: under AUCTION_BASED no selection ends with an error: a step raises
\* nothing and the scheduler keeps running.
C26_AuctionWithoutBidsIsQuiet ==
  distribution_strategy = "auction_based"
  => (raised = None /\ scheduler_alive)

\* C27: no task is in the queue and Active, or Active and in the completed
\* history, or in the queue twice.
C27_OnePartitionPerTask ==
  \A t \in DOMAIN tasks :
    /\ ~(t \in Range(task_queue) /\ t \in Range(active_tasks))
    /\ ~(t \in Range(active_tasks) /\ t \in CompletedIds)
    /\ Cardinality({i \in 1..Len(task_queue) : task_queue[i] = t}) <= 1

\* C28: every submitted task is in the queue, Active or in the completed
\* history.
C28_NoTaskLost ==
  \A t \in DOMAIN tasks :
    \/ t \in Range(task_queue)
    \/ t \in Range(active_tasks)
    \/ t \in CompletedIds

\* C29: in HiveService an agent has current_task = t exactly when t is
\* RUNNING and assigned to it, and an agent without current_task is not
\* WORKING.
C29_ServiceRecordsAgree ==
  \A a \in DOMAIN service_agents :
    /\ \A t \in TimedTaskIds :
         (service_agents[a].current_task = t)
         <=> (/\ t \in DOMAIN service_tasks
              /\ service_tasks[t].status = "running"
              /\ service_tasks[t].assigned_agent = a)
    /\ service_agents[a].current_task = None
       => service_agents[a].status # "working"

\* the terminal statuses of a service task
TerminalStatuses == {"completed", "failed", "cancelled"}

\* C30: in HiveService no call changes the status of a task that is
\* COMPLETED, FAILED or CANCELLED.
C30_TerminalStatusAbsorbing ==
  [][\A t \in DOMAIN service_tasks :
       service_tasks[t].status \in TerminalStatuses
       => service_tasks'[t].status = service_tasks[t].status]_vars
====
